---- MODULE Spec2Model ----
(***************************************************************************)
(* A model of the Context7 agent's conversation store (src/src/history.py), *)
(* of the per-call tool-server lifecycle (src/verify_mcp.py) and of the     *)
(* chat turn of the terminal front-end (src/src/cli.py).                    *)
(*                                                                          *)
(* Python values are tagged records: Str(s), List(seq), Dict(f) with f a    *)
(* function from key strings to values.  A file's content is a sequence of  *)
(* tokens: punctuation, string literals, bare words and undecodable bytes.  *)
(* json.dumps and json.loads are modelled as a printer and a recursive-     *)
(* descent parser over tokens; indentation and white space are not          *)
(* modelled, and an object's keys are printed in the order of KeyOrder.     *)
(***************************************************************************)
EXTENDS Integers, Sequences, FiniteSets, TLC

VARIABLES
    history,    \* HistoryManager.history
    bookmarks,  \* HistoryManager.bookmarks
    sessions,   \* HistoryManager.sessions
    file,       \* the backing file: [exists, text]
    dir,        \* the directory part of the file's path, as the file system has it
    pc,         \* position of the store's caller: "idle", or inside a load
    last,       \* the operation that completed last, and how it ended
    saved,      \* what the last successful save wrote, while the file is still as written
    tasks,      \* the save_async / load_async calls in flight on the store, by task
    lastWrite,  \* the text written by the save_async that completed last
    overlapping,\* every call so far started before any call had completed
    calls,      \* the chat calls made on the agent, in the order they started
    servers,    \* the tool-server instances created, in the order they were created
    repl        \* the prompt loop of main(): where it is, and its current turn

storeVars == <<history, bookmarks, sessions, file, dir, pc, last, saved>>
asyncVars == <<tasks, lastWrite, overlapping>>
chatVars == <<calls, servers>>
vars == <<storeVars, asyncVars, chatVars, repl>>

(***************************************************************************)
(* Python values                                                            *)
(***************************************************************************)
Str(s) == [t |-> "str", v |-> s]
List(s) == [t |-> "list", v |-> s]
Dict(f) == [t |-> "dict", v |-> f]
EmptyFn == [k \in {} |-> Str("")]
EmptyList == List(<<>>)

\* A value json cannot encode: a set, a datetime, any other object.
Obj == [t |-> "obj", v |-> "set"]

IsList(x) == x.t = "list"
IsDict(x) == x.t = "dict"

\* list.append(x) on a list value
PyAppend(l, x) == List(Append(l.v, x))

\* x in l, for a list l: some element equal by value
PyIn(x, l) == \E i \in 1..Len(l.v) : l.v[i] = x

\* dict.get(key, default)
PyGet(d, key, default) == IF key \in DOMAIN d.v THEN d.v[key] ELSE default

(***************************************************************************)
(* Tokens of a file's text                                                  *)
(***************************************************************************)
P(c) == [k |-> "p", s |-> c]       \* punctuation: { } [ ] , :
S(s) == [k |-> "s", s |-> s]       \* a string literal "s"
W(s) == [k |-> "w", s |-> s]       \* a bare word, which no JSON value starts with
BadByte == [k |-> "x", s |-> "ff"] \* a byte that is not valid UTF-8
Unencodable == [k |-> "!", s |-> "TypeError"]  \* where the encoder raises TypeError

\* The keys the model's objects use, in the order they are inserted.
KeyOrder == <<"history", "bookmarks", "sessions", "role", "content", "title", "name",
              "user", "assistant">>

KeysOf(f) == SelectSeq(KeyOrder, LAMBDA k : k \in DOMAIN f)

(***************************************************************************)
(* json.dumps / json.dump: printing a value                                 *)
(***************************************************************************)
RECURSIVE JsonDumps(_), DumpItems(_, _), DumpMembers(_, _, _)
DumpItems(s, i) ==
    IF i > Len(s) THEN <<>>
    ELSE (IF i > 1 THEN <<P(",")>> ELSE <<>>) \o JsonDumps(s[i]) \o DumpItems(s, i + 1)

DumpMembers(f, keys, i) ==
    IF i > Len(keys) THEN <<>>
    ELSE (IF i > 1 THEN <<P(",")>> ELSE <<>>)
         \o <<S(keys[i]), P(":")>> \o JsonDumps(f[keys[i]])
         \o DumpMembers(f, keys, i + 1)

JsonDumps(x) ==
    CASE x.t = "str"  -> <<S(x.v)>>
      [] x.t = "list" -> <<P("[")>> \o DumpItems(x.v, 1) \o <<P("]")>>
      [] x.t = "dict" -> <<P("{")>> \o DumpMembers(x.v, KeysOf(x.v), 1) \o <<P("}")>>
      [] x.t = "obj"  -> <<Unencodable>>

\* json.dumps(x) returns a text; otherwise it raises TypeError.
RECURSIVE Serializable(_)
Serializable(x) ==
    CASE x.t = "str"  -> TRUE
      [] x.t = "list" -> \A i \in 1..Len(x.v) : Serializable(x.v[i])
      [] x.t = "dict" -> \A k \in DOMAIN x.v : Serializable(x.v[k])
      [] x.t = "obj"  -> FALSE

\* JSONEncoder.iterencode(x): the chunks the encoder yields, one after the
\* other, up to the value it cannot encode.
RECURSIVE ChunksFrom(_, _)
ChunksFrom(ts, i) ==
    IF i > Len(ts) \/ ts[i] = Unencodable THEN <<>>
    ELSE <<(<<ts[i]>>)>> \o ChunksFrom(ts, i + 1)

IterEncode(x) == ChunksFrom(JsonDumps(x), 1)

\* json.dump(x, fp): "for chunk in iterable: fp.write(chunk)"; what fp has
\* been given when the loop ends or the encoder raises.
RECURSIVE WriteChunks(_, _, _)
WriteChunks(buf, chunks, i) ==
    IF i > Len(chunks) THEN buf ELSE WriteChunks(buf \o chunks[i], chunks, i + 1)

(***************************************************************************)
(* json.loads / json.load: parsing a text                                   *)
(***************************************************************************)
ParseFail == [ok |-> FALSE, v |-> Str(""), i |-> 0]
ParseOk(val, next) == [ok |-> TRUE, v |-> val, i |-> next]

RECURSIVE ParseValue(_, _), ParseItems(_, _, _), ParseMembers(_, _, _)
ParseValue(ts, i) ==
    IF i > Len(ts) THEN ParseFail
    ELSE CASE ts[i].k = "s" -> ParseOk(Str(ts[i].s), i + 1)
           [] ts[i] = P("[") ->
                IF i + 1 <= Len(ts) /\ ts[i + 1] = P("]")
                THEN ParseOk(EmptyList, i + 2)
                ELSE ParseItems(ts, i + 1, <<>>)
           [] ts[i] = P("{") ->
                IF i + 1 <= Len(ts) /\ ts[i + 1] = P("}")
                THEN ParseOk(Dict(EmptyFn), i + 2)
                ELSE ParseMembers(ts, i + 1, EmptyFn)
           [] OTHER -> ParseFail

ParseItems(ts, i, acc) ==
    LET r == ParseValue(ts, i) IN
    IF ~r.ok \/ r.i > Len(ts) THEN ParseFail
    ELSE IF ts[r.i] = P(",") THEN ParseItems(ts, r.i + 1, Append(acc, r.v))
    ELSE IF ts[r.i] = P("]") THEN ParseOk(List(Append(acc, r.v)), r.i + 1)
    ELSE ParseFail

ParseMembers(ts, i, acc) ==
    IF i + 1 > Len(ts) \/ ts[i].k # "s" \/ ts[i + 1] # P(":") THEN ParseFail
    ELSE LET r == ParseValue(ts, i + 2) IN
         IF ~r.ok \/ r.i > Len(ts) THEN ParseFail
         ELSE LET acc2 == (ts[i].s :> r.v) @@ acc IN   \* a repeated key keeps the last value
              IF ts[r.i] = P(",") THEN ParseMembers(ts, r.i + 1, acc2)
              ELSE IF ts[r.i] = P("}") THEN ParseOk(Dict(acc2), r.i + 1)
              ELSE ParseFail

\* json.loads(text): the value, or JSONDecodeError (also for text after the value)
JsonLoads(ts) ==
    LET r == ParseValue(ts, 1) IN
    IF r.ok /\ r.i = Len(ts) + 1 THEN [ok |-> TRUE, v |-> r.v]
    ELSE [ok |-> FALSE, v |-> Str("")]

\* Reading a file opened with encoding="utf-8": the text, or UnicodeDecodeError
Decodable(ts) == \A i \in 1..Len(ts) : ts[i].k # "x"

(***************************************************************************)
(* The values the callers pass, and the files other programs leave          *)
(***************************************************************************)
MaxItems == 3   \* append / add_bookmark / add_session stop at this many entries in all

Message(role, content) == Dict([role |-> Str(role), content |-> Str(content)])
Msgs == {Message("user", "hi"), Message("assistant", "yo")}
Docs == {Dict([title |-> Str("T1")]), Dict([title |-> Obj])}
Sess == {Dict([name |-> Str("N1")])}

Doc1 == Dict([title |-> Str("T1")])
Doc2 == Dict([title |-> Obj])
LegacyList == List(<<Dict([user |-> Str("hello"), assistant |-> Str("hi")])>>)

\* Files written by something other than this store.
ExternalFiles ==
    { <<W("invalid"), W("json")>>,                       \* not JSON
      <<BadByte>>,                                       \* not UTF-8
      JsonDumps(EmptyList),                              \* []
      JsonDumps(LegacyList),                             \* [{"user": .., "assistant": ..}]
      JsonDumps(Dict([history |-> List(<<Message("user", "hi")>>)])),
      JsonDumps(Dict([history |-> EmptyList,
                      bookmarks |-> List(<<Doc1, Doc1>>),
                      sessions |-> EmptyList])) }

Absent == [exists |-> FALSE, text |-> <<>>]
Content(ts) == [exists |-> TRUE, text |-> ts]

\* How the operating system answers a write: it works, open() fails, or the
\* write fails after open(path, "w") has truncated the file.
IOOutcomes == {"ok", "open_fails", "write_fails"}

NoSave == [valid |-> FALSE, own |-> FALSE,
           h |-> EmptyList, b |-> EmptyList, s |-> EmptyList]

Done(op, ex, path) == [op |-> op, ex |-> ex, path |-> path]

(***************************************************************************)
(* HistoryManager                                                           *)
(***************************************************************************)
\* A step of the store's single caller: no task is touched.
StoreOnly == UNCHANGED <<asyncVars, chatVars, repl>>

StoreInit ==
    /\ history = EmptyList
    /\ bookmarks = EmptyList
    /\ sessions = EmptyList
    /\ pc = "idle"
    /\ last = Done("init", "none", "")
    /\ saved = NoSave

\* The entries the three sequences hold in all; the callers stop at MaxItems.
Size(x) == IF IsList(x) THEN Len(x.v) ELSE 0
Room == Size(history) + Size(bookmarks) + Size(sessions) < MaxItems

\* list.insert(0, msg): the message lands in front of the earlier ones.
HistoryAppend_front(h, msg) == List(<<msg>> \o h.v)

\* append(msg)
HistoryAppend(h, msg) == PyAppend(h, msg)

append(msg) ==
    /\ pc = "idle"
    /\ IsList(history)
    /\ Room
    /\ history' = HistoryAppend(history, msg)
    /\ last' = Done("append", "none", "")
    /\ UNCHANGED <<bookmarks, sessions, file, pc, saved>>
    /\ StoreOnly
    /\ UNCHANGED dir

\* clear() that also empties the file.
clear_truncate ==
    /\ pc = "idle"
    /\ IsList(history)
    /\ history' = EmptyList
    /\ file' = Content(<<>>)
    /\ last' = Done("clear", "none", "")
    /\ UNCHANGED <<bookmarks, sessions, pc, saved>>
    /\ StoreOnly
    /\ UNCHANGED dir

\* clear()
clear ==
    /\ pc = "idle"
    /\ IsList(history)
    /\ history' = EmptyList
    /\ last' = Done("clear", "none", "")
    /\ UNCHANGED <<bookmarks, sessions, file, pc, saved>>
    /\ StoreOnly
    /\ UNCHANGED dir

\* The dict save() and save_async() serialize.
SaveData(h, b, s) == Dict([history |-> h, bookmarks |-> b, sessions |-> s])

\* The same with the file opened in mode "a": the text lands after what is there.
WriteFile_append(f, text, io) ==
    CASE io = "ok"          -> Content(f.text \o text)
      [] io = "open_fails"  -> f
      [] io = "write_fails" -> f
      [] io = "mkdir_fails" -> f

\* open(path, "w"), write, close, run with no other writer in between.
WriteFile(f, text, io) ==
    CASE io = "ok"          -> Content(text)
      [] io = "open_fails"  -> f
      [] io = "write_fails" -> Content(<<>>)
      [] io = "mkdir_fails" -> f      \* os.makedirs raised: open is not reached

SavedNow(h, b, s, io) ==
    IF io = "ok" THEN [valid |-> TRUE, own |-> TRUE, h |-> h, b |-> b, s |-> s]
    ELSE NoSave

IOError(io) ==
    CASE io = "ok"         -> "none"
      [] io = "type_error" -> "TypeError"
      [] OTHER             -> "OSError"

\* How a save of data ends: the encoder raises TypeError once the file is
\* open, unless every value in data can be encoded.
Outcome(data, io) ==
    IF io \notin {"open_fails", "mkdir_fails"} /\ ~Serializable(data)
    THEN "type_error" ELSE io

\* with open(path, "w") as f: json.dump(data, f) -- the chunks written before
\* a TypeError reach the file when the with block closes it.
SyncDump(f, data, io) ==
    WriteFile(f, WriteChunks(<<>>, IterEncode(data), 1),
              IF Outcome(data, io) = "type_error" THEN "ok" ELSE io)

\* async with aiofiles.open(path, "w") as f: await f.write(json.dumps(data)) --
\* a TypeError comes before anything is written to the opened file.
AsyncDump(f, data, io) ==
    IF Outcome(data, io) = "type_error"
    THEN Content(<<>>)
    ELSE WriteFile(f, JsonDumps(data), io)

(***************************************************************************)
(* os.makedirs(os.path.dirname(self.filepath), exist_ok=True)               *)
(***************************************************************************)
\* What the file system has where the directory part of the path points:
\* a directory, nothing, a file of that name; "none" is a path with no
\* directory part, whose dirname is the empty string.
DirKinds == {"exists", "missing", "occupied", "none"}

\* The exception os.makedirs raises whatever the operating system allows:
\* FileNotFoundError for the empty string, FileExistsError for a file.
MakeDirsError(d) ==
    CASE d = "none"     -> "FileNotFoundError"
      [] d = "occupied" -> "FileExistsError"
      [] OTHER          -> "none"

\* How the operating system can answer a save: os.makedirs raises, or the
\* outcomes of open and write; creating a missing directory may fail too.
SaveOutcomes(d) ==
    IF MakeDirsError(d) # "none" THEN {"mkdir_fails"}
    ELSE IF d = "missing" THEN IOOutcomes \cup {"mkdir_fails"}
    ELSE IOOutcomes

\* A save that does not create the directory.
DirAfter_noCreate(d, io) == d

\* The directory after the save: a missing one has been created.
DirAfter(d, io) == IF d = "missing" /\ io # "mkdir_fails" THEN "exists" ELSE d

\* Whether the save found the directory missing and created it.
DirNote(d, io) == IF d = "missing" /\ io # "mkdir_fails" THEN "created" ELSE ""

\* save(): json.dump(data, f)
save ==
    /\ pc = "idle"
    /\ \E io \in SaveOutcomes(dir) :
        /\ file' = SyncDump(file, SaveData(history, bookmarks, sessions), io)
        /\ saved' = SavedNow(history, bookmarks, sessions,
                             Outcome(SaveData(history, bookmarks, sessions), io))
        /\ last' = Done("save", IOError(Outcome(SaveData(history, bookmarks, sessions), io)),
                        DirNote(dir, io))
        /\ dir' = DirAfter(dir, io)
    /\ UNCHANGED <<history, bookmarks, sessions, pc>>
    /\ StoreOnly

\* save_async(), run with no other task in between: f.write(json.dumps(data))
save_async ==
    /\ pc = "idle"
    /\ \E io \in SaveOutcomes(dir) :
        /\ file' = AsyncDump(file, SaveData(history, bookmarks, sessions), io)
        /\ saved' = SavedNow(history, bookmarks, sessions,
                             Outcome(SaveData(history, bookmarks, sessions), io))
        /\ last' = Done("save_async",
                        IOError(Outcome(SaveData(history, bookmarks, sessions), io)),
                        DirNote(dir, io))
        /\ dir' = DirAfter(dir, io)
    /\ UNCHANGED <<history, bookmarks, sessions, pc>>
    /\ StoreOnly

\* add_bookmark(doc) without the membership test.
IsNewBookmark_always(doc, b) == TRUE

\* add_bookmark(doc): the test "doc not in self.bookmarks"
IsNewBookmark(doc, b) == ~PyIn(doc, b)

add_bookmark(doc) ==
    /\ pc = "idle"
    /\ IsList(bookmarks)
    /\ IF IsNewBookmark(doc, bookmarks)
       THEN /\ Room
            /\ bookmarks' = PyAppend(bookmarks, doc)
            /\ \E io \in SaveOutcomes(dir) :
                /\ file' = SyncDump(file, SaveData(history, bookmarks', sessions), io)
                /\ saved' = SavedNow(history, bookmarks', sessions,
                                     Outcome(SaveData(history, bookmarks', sessions), io))
                /\ last' = Done("add_bookmark",
                                IOError(Outcome(SaveData(history, bookmarks', sessions), io)),
                                "added")
                /\ dir' = DirAfter(dir, io)
       ELSE /\ last' = Done("add_bookmark", "none", "known")
            /\ UNCHANGED <<bookmarks, file, dir, saved>>
    /\ UNCHANGED <<history, sessions, pc>>
    /\ StoreOnly

\* add_session(session) with the membership test of add_bookmark.
add_session_dedup(session) ==
    /\ pc = "idle"
    /\ IsList(sessions)
    /\ IF ~PyIn(session, sessions)
       THEN /\ Room
            /\ sessions' = PyAppend(sessions, session)
            /\ \E io \in SaveOutcomes(dir) :
                /\ file' = SyncDump(file, SaveData(history, bookmarks, sessions'), io)
                /\ saved' = SavedNow(history, bookmarks, sessions',
                                     Outcome(SaveData(history, bookmarks, sessions'), io))
                /\ last' = Done("add_session",
                                IOError(Outcome(SaveData(history, bookmarks, sessions'), io)), "")
                /\ dir' = DirAfter(dir, io)
       ELSE /\ last' = Done("add_session", "none", "")
            /\ UNCHANGED <<sessions, file, dir, saved>>
    /\ UNCHANGED <<history, bookmarks, pc>>
    /\ StoreOnly

\* add_session(session) without the call of save().
add_session_noSave(session) ==
    /\ pc = "idle"
    /\ IsList(sessions)
    /\ Room
    /\ sessions' = PyAppend(sessions, session)
    /\ last' = Done("add_session", "none", "")
    /\ UNCHANGED <<history, bookmarks, file, saved, pc>>
    /\ StoreOnly
    /\ UNCHANGED dir

\* add_session(session)
add_session(session) ==
    /\ pc = "idle"
    /\ IsList(sessions)
    /\ Room
    /\ sessions' = PyAppend(sessions, session)
    /\ \E io \in SaveOutcomes(dir) :
        /\ file' = SyncDump(file, SaveData(history, bookmarks, sessions'), io)
        /\ saved' = SavedNow(history, bookmarks, sessions',
                             Outcome(SaveData(history, bookmarks, sessions'), io))
        /\ last' = Done("add_session",
                        IOError(Outcome(SaveData(history, bookmarks, sessions'), io)), "")
        /\ dir' = DirAfter(dir, io)
    /\ UNCHANGED <<history, bookmarks, pc>>
    /\ StoreOnly

\* What a load leaves behind: the exception that reaches the caller ("none"
\* when it returns), the branch taken, and the three sequences.
Loaded(ex, path, h, b, s) == [ex |-> ex, path |-> path, h |-> h, b |-> b, s |-> s]

\* os.path.isfile(self.filepath)
isfile(f) == f.exists

\* load() with an except clause that names json.JSONDecodeError alone.
LoadTry_uncaught(f, h, b, s) ==
    IF ~f.exists
    THEN Loaded("FileNotFoundError", "raised", h, b, s)
    ELSE IF ~Decodable(f.text)
    THEN Loaded("UnicodeDecodeError", "raised", h, b, s)
    ELSE LET data == JsonLoads(f.text) IN
         IF ~data.ok
         THEN Loaded("none", "corrupt", EmptyList, EmptyList, EmptyList)
         ELSE IF ~IsDict(data.v)
         THEN Loaded("AttributeError", "raised", h, b, s)
         ELSE Loaded("none", "ok",
                     PyGet(data.v, "history", EmptyList),
                     PyGet(data.v, "bookmarks", EmptyList),
                     PyGet(data.v, "sessions", EmptyList))

\* load() with data.get(key, <the list in memory>): an absent key keeps what was there.
LoadTry_keepMissing(f, h, b, s) ==
    IF ~f.exists
    THEN Loaded("none", "vanished", EmptyList, EmptyList, EmptyList)
    ELSE IF ~Decodable(f.text)
    THEN Loaded("UnicodeDecodeError", "raised", h, b, s)
    ELSE LET data == JsonLoads(f.text) IN
         IF ~data.ok
         THEN Loaded("none", "corrupt", EmptyList, EmptyList, EmptyList)
         ELSE IF ~IsDict(data.v)
         THEN Loaded("AttributeError", "raised", h, b, s)
         ELSE Loaded("none", "ok",
                     PyGet(data.v, "history", h),
                     PyGet(data.v, "bookmarks", b),
                     PyGet(data.v, "sessions", s))

\* load(), from the try on: open, json.load, the three data.get, the except clause.
\* f is the file as open() finds it; h, b, s are the sequences before the load.
LoadTry(f, h, b, s) ==
    IF ~f.exists
    THEN Loaded("none", "vanished", EmptyList, EmptyList, EmptyList)   \* FileNotFoundError
    ELSE IF ~Decodable(f.text)
    THEN Loaded("UnicodeDecodeError", "raised", h, b, s)
    ELSE LET data == JsonLoads(f.text) IN
         IF ~data.ok
         THEN Loaded("none", "corrupt", EmptyList, EmptyList, EmptyList) \* JSONDecodeError
         ELSE IF ~IsDict(data.v)
         THEN Loaded("AttributeError", "raised", h, b, s)  \* data.get on a non-dict
         ELSE Loaded("none", "ok",
                     PyGet(data.v, "history", EmptyList),
                     PyGet(data.v, "bookmarks", EmptyList),
                     PyGet(data.v, "sessions", EmptyList))

\* load_async() reading sessions from the key "bookmarks".
LoadAsyncTry_wrongKey(f, h, b, s) ==
    IF ~f.exists
    THEN Loaded("none", "vanished", EmptyList, EmptyList, EmptyList)
    ELSE IF ~Decodable(f.text)
    THEN Loaded("UnicodeDecodeError", "raised", h, b, s)
    ELSE LET data == JsonLoads(f.text) IN
         IF ~data.ok
         THEN Loaded("none", "corrupt", EmptyList, EmptyList, EmptyList)
         ELSE IF ~IsDict(data.v)
         THEN Loaded("AttributeError", "raised", h, b, s)
         ELSE Loaded("none", "ok",
                     PyGet(data.v, "history", EmptyList),
                     PyGet(data.v, "bookmarks", EmptyList),
                     PyGet(data.v, "bookmarks", EmptyList))

\* load_async(), from the try on: aiofiles.open, f.read, json.loads, the three
\* data.get, the except clause.
LoadAsyncTry(f, h, b, s) ==
    IF ~f.exists
    THEN Loaded("none", "vanished", EmptyList, EmptyList, EmptyList)   \* FileNotFoundError
    ELSE IF ~Decodable(f.text)
    THEN Loaded("UnicodeDecodeError", "raised", h, b, s)
    ELSE LET data == JsonLoads(f.text) IN
         IF ~data.ok
         THEN Loaded("none", "corrupt", EmptyList, EmptyList, EmptyList) \* JSONDecodeError
         ELSE IF ~IsDict(data.v)
         THEN Loaded("AttributeError", "raised", h, b, s)  \* data.get on a non-dict
         ELSE Loaded("none", "ok",
                     PyGet(data.v, "history", EmptyList),
                     PyGet(data.v, "bookmarks", EmptyList),
                     PyGet(data.v, "sessions", EmptyList))

LoadOps == {"load", "load_async"}

\* load() and load_async() up to the existence check: return when there is no
\* file, go on to the try otherwise.  Another program may touch the file
\* between the check and the open.
load_check(kind) ==
    /\ pc = "idle"
    /\ IF isfile(file)
       THEN /\ pc' = kind
            /\ last' = Done("check", "none", "")
       ELSE /\ pc' = "idle"
            /\ last' = Done(kind, "none", "nofile")
    /\ UNCHANGED <<history, bookmarks, sessions, file, saved>>
    /\ StoreOnly
    /\ UNCHANGED dir

load ==
    /\ pc = "load"
    /\ LET r == LoadTry(file, history, bookmarks, sessions) IN
        /\ history' = r.h
        /\ bookmarks' = r.b
        /\ sessions' = r.s
        /\ last' = Done("load", r.ex, r.path)
    /\ pc' = "idle"
    /\ UNCHANGED <<file, saved>>
    /\ StoreOnly
    /\ UNCHANGED dir

load_async ==
    /\ pc = "load_async"
    /\ LET r == LoadAsyncTry(file, history, bookmarks, sessions) IN
        /\ history' = r.h
        /\ bookmarks' = r.b
        /\ sessions' = r.s
        /\ last' = Done("load_async", r.ex, r.path)
    /\ pc' = "idle"
    /\ UNCHANGED <<file, saved>>
    /\ StoreOnly
    /\ UNCHANGED dir

\* HistoryManager(filepath): a new store instance on the same path.
HistoryManager ==
    /\ pc = "idle"
    /\ history' = EmptyList
    /\ bookmarks' = EmptyList
    /\ sessions' = EmptyList
    /\ last' = Done("new", "none", "")
    /\ saved' = [saved EXCEPT !.own = FALSE]
    /\ UNCHANGED <<file, pc>>
    /\ StoreOnly
    /\ UNCHANGED dir

\* Another program writes the file, or removes it.
EnvWrite(text) ==
    /\ file # Content(text)
    /\ file' = Content(text)
    /\ saved' = NoSave
    /\ last' = Done("env", "none", "")
    /\ UNCHANGED <<history, bookmarks, sessions, pc>>
    /\ StoreOnly
    /\ UNCHANGED dir

EnvRemove ==
    /\ file.exists
    /\ file' = Absent
    /\ saved' = NoSave
    /\ last' = Done("env", "none", "")
    /\ UNCHANGED <<history, bookmarks, sessions, pc>>
    /\ StoreOnly
    /\ UNCHANGED dir

(***************************************************************************)
(* The store used by one caller at a time                                   *)
(***************************************************************************)
NoTasks == [i \in {} |-> 0]
\* The locals of main(): where it stands, the chat call it awaits, the
\* transcript before that call, how the last turn ended and the line that
\* started it; the two probes of check_nodejs and its verdict, what Prompt.ask
\* gave last, last_results, theme, the last thing a command printed, and the
\* transcript main() began with.
Repl(at, call, before, turn, input) ==
    [pc |-> at, call |-> call, before |-> before, turn |-> turn, input |-> input,
     node |-> "", npx |-> "", gate |-> "passed",
     asked |-> [kind |-> "none", text |-> ""],
     last_results |-> EmptyList, theme |-> "cyberpunk", report |-> "",
     initial |-> before]

NoRepl == Repl("off", 0, EmptyList, "none", "")

Init ==
    /\ StoreInit
    /\ file = Absent
    /\ dir = "exists"
    /\ tasks = NoTasks
    /\ lastWrite = <<>>
    /\ overlapping = TRUE
    /\ calls = <<>>
    /\ servers = <<>>
    /\ repl = NoRepl

Next ==
    \/ \E msg \in Msgs : append(msg)
    \/ clear
    \/ save
    \/ save_async
    \/ \E doc \in Docs : add_bookmark(doc)
    \/ \E session \in Sess : add_session(session)
    \/ \E kind \in LoadOps : load_check(kind)
    \/ load
    \/ load_async
    \/ HistoryManager
    \/ \E text \in ExternalFiles : EnvWrite(text)
    \/ EnvRemove

Spec == Init /\ [][Next]_vars

(***************************************************************************)
(* The store on paths whose directory is there, missing, or cannot be made  *)
(***************************************************************************)
\* shutil.rmtree(custom_dir): the directory goes, and the file with it.
EnvRemoveTree ==
    /\ dir = "exists"
    /\ dir' = "missing"
    /\ file' = Absent
    /\ saved' = NoSave
    /\ last' = Done("env", "none", "")
    /\ UNCHANGED <<history, bookmarks, sessions, pc>>
    /\ StoreOnly

DirInit ==
    /\ StoreInit
    /\ file = Absent
    /\ dir \in DirKinds
    /\ tasks = NoTasks
    /\ lastWrite = <<>>
    /\ overlapping = TRUE
    /\ calls = <<>>
    /\ servers = <<>>
    /\ repl = NoRepl

DirNext ==
    \/ \E msg \in Msgs : append(msg)
    \/ save
    \/ save_async
    \/ \E doc \in Docs : add_bookmark(doc)
    \/ \E session \in Sess : add_session(session)
    \/ EnvRemoveTree

SpecDirs == DirInit /\ [][DirNext]_vars

(***************************************************************************)
(* save_async and load_async calls that overlap on one store instance       *)
(*                                                                          *)
(* Each call is a task of the event loop.  It runs without interruption     *)
(* from one await to the next; each awaited aiofiles operation (open,       *)
(* write, read, close) runs in a worker thread and is one step here.  No    *)
(* append or clear runs while the calls overlap, so the lists a save_async  *)
(* put in data when it started are the lists json.dumps prints later.       *)
(***************************************************************************)
MaxTasks == 3   \* the calls started in one run

Task(kind, at, data, buf, seen, how) ==
    [kind |-> kind, pc |-> at, data |-> data, buf |-> buf, seen |-> seen, how |-> how]

NoData == Dict(EmptyFn)

\* The store and the file when the calls start: a store that is new or holds
\* one message, on a path where an earlier run left nothing, an empty
\* history, or two messages.
AsyncStores == {EmptyList, List(<<Message("user", "hi")>>)}
AsyncFiles ==
    {Absent}
    \cup {Content(JsonDumps(SaveData(h, EmptyList, EmptyList))) :
            h \in {EmptyList,
                   List(<<Message("user", "hi"), Message("assistant", "yo")>>)}}

AsyncInit ==
    /\ history \in AsyncStores
    /\ bookmarks = EmptyList
    /\ sessions = EmptyList
    /\ file \in AsyncFiles
    /\ dir = "exists"
    /\ pc = "idle"
    /\ last = Done("init", "none", "")
    /\ saved = NoSave
    /\ tasks = NoTasks
    /\ lastWrite = <<>>
    /\ overlapping = TRUE
    /\ calls = <<>>
    /\ servers = <<>>
    /\ repl = NoRepl

Started == DOMAIN tasks
NoneDone == \A i \in Started : tasks[i].pc # "done"
At(i, at) == i \in Started /\ tasks[i].pc = at
Step(i, t) == tasks' = [tasks EXCEPT ![i] = t] /\ UNCHANGED overlapping
AsyncOnly == UNCHANGED <<dir, pc, last, saved, chatVars, repl>>

\* A write of text at offset 0 through a handle of its own: what the file
\* holds past the end of text stays.
Overlay(f, text) ==
    Content(text \o SubSeq(f.text, Len(text) + 1, Len(f.text)))

\* save_async up to its first await: data is built, open(path, "w") is asked for.
save_async_start ==
    /\ Cardinality(Started) < MaxTasks
    /\ tasks' = (Cardinality(Started) + 1 :>
                    Task("save_async", "open", SaveData(history, bookmarks, sessions),
                         <<>>, Absent, "")) @@ tasks
    /\ overlapping' = (overlapping /\ NoneDone)
    /\ UNCHANGED <<history, bookmarks, sessions, file, lastWrite>>
    /\ AsyncOnly

\* aiofiles.open(path, "w") runs: the file is created or truncated.
save_async_open(i) ==
    /\ At(i, "open")
    /\ tasks[i].kind = "save_async"
    /\ file' = Content(<<>>)
    /\ Step(i, [tasks[i] EXCEPT !.pc = "write"])
    /\ UNCHANGED <<history, bookmarks, sessions, lastWrite>>
    /\ AsyncOnly

\* f.write(json.dumps(data)): the text goes to the handle's buffer.
save_async_write(i) ==
    /\ At(i, "write")
    /\ Step(i, [tasks[i] EXCEPT !.pc = "close", !.buf = JsonDumps(tasks[i].data)])
    /\ UNCHANGED <<history, bookmarks, sessions, file, lastWrite>>
    /\ AsyncOnly

\* Leaving "async with": close flushes the buffer to the file; the call returns.
save_async_close(i) ==
    /\ At(i, "close")
    /\ tasks[i].kind = "save_async"
    /\ file' = Overlay(file, tasks[i].buf)
    /\ lastWrite' = tasks[i].buf
    /\ Step(i, [tasks[i] EXCEPT !.pc = "done"])
    /\ UNCHANGED <<history, bookmarks, sessions>>
    /\ AsyncOnly

\* load_async up to its first await: the existence check, then open(path, "r")
\* is asked for; without a file the call returns at once.
load_async_start ==
    /\ Cardinality(Started) < MaxTasks
    /\ tasks' = (Cardinality(Started) + 1 :>
                    Task("load_async", IF isfile(file) THEN "read" ELSE "done",
                         NoData, <<>>, Absent, "")) @@ tasks
    /\ overlapping' = (overlapping /\ NoneDone)
    /\ UNCHANGED <<history, bookmarks, sessions, file, lastWrite>>
    /\ AsyncOnly

\* aiofiles.open(path, "r") and f.read() run: the content as it is now.
load_async_read(i) ==
    /\ At(i, "read")
    /\ Step(i, [tasks[i] EXCEPT !.pc = "parse", !.seen = file])
    /\ UNCHANGED <<history, bookmarks, sessions, file, lastWrite>>
    /\ AsyncOnly

\* The task goes on after the read: json.loads and, when it yields an object,
\* the three assignments; an exception waits for the file to be closed.
load_async_parse(i) ==
    /\ At(i, "parse")
    /\ LET r == LoadAsyncTry(tasks[i].seen, history, bookmarks, sessions) IN
        /\ Step(i, [tasks[i] EXCEPT !.pc = "close", !.how = r.path])
        /\ IF r.path = "ok"
           THEN history' = r.h /\ bookmarks' = r.b /\ sessions' = r.s
           ELSE UNCHANGED <<history, bookmarks, sessions>>
    /\ UNCHANGED <<file, lastWrite>>
    /\ AsyncOnly

\* Leaving "async with": the file is closed, then a pending exception is
\* handled by the except clause (the reset) or reaches the caller.
load_async_close(i) ==
    /\ At(i, "close")
    /\ tasks[i].kind = "load_async"
    /\ LET r == LoadAsyncTry(tasks[i].seen, history, bookmarks, sessions) IN
        /\ Step(i, [tasks[i] EXCEPT !.pc = "done",
                                    !.how = IF r.ex = "none" THEN r.path ELSE r.ex])
        /\ IF tasks[i].how = "ok"
           THEN UNCHANGED <<history, bookmarks, sessions>>
           ELSE history' = r.h /\ bookmarks' = r.b /\ sessions' = r.s
    /\ UNCHANGED <<file, lastWrite>>
    /\ AsyncOnly

AsyncNext ==
    \/ save_async_start
    \/ \E i \in Started : save_async_open(i)
    \/ \E i \in Started : save_async_write(i)
    \/ \E i \in Started : save_async_close(i)
    \/ load_async_start
    \/ \E i \in Started : load_async_read(i)
    \/ \E i \in Started : load_async_parse(i)
    \/ \E i \in Started : load_async_close(i)

SpecAsync == AsyncInit /\ [][AsyncNext]_vars

(***************************************************************************)
(* Properties of the store                                                  *)
(***************************************************************************)
Items(l) == {l.v[i] : i \in 1..Len(l.v)}

NoDuplicates(l) == \A i, j \in 1..Len(l.v) : i # j => l.v[i] # l.v[j]

\* The file holds exactly one JSON object with the keys history, bookmarks and
\* sessions, whose values are h, b and s.
FileHolds(f, h, b, s) ==
    /\ f.exists
    /\ Decodable(f.text)
    /\ LET data == JsonLoads(f.text) IN
        /\ data.ok
        /\ IsDict(data.v)
        /\ DOMAIN data.v.v = {"history", "bookmarks", "sessions"}
        /\ data.v.v["history"] = h
        /\ data.v.v["bookmarks"] = b
        /\ data.v.v["sessions"] = s

\* The file's content cannot be read as JSON text.
Unparsable(f) == f.exists /\ (~Decodable(f.text) \/ ~JsonLoads(f.text).ok)

\* The file's content is JSON, and its top-level value is not an object.
NotAnObject(f) ==
    /\ f.exists
    /\ Decodable(f.text)
    /\ JsonLoads(f.text).ok
    /\ ~IsDict(JsonLoads(f.text).v)

AllEmpty == history = EmptyList /\ bookmarks = EmptyList /\ sessions = EmptyList

\* C1: a load (sync or async, on a new instance or on the saving one) of the
\* file a save, save_async, add_bookmark or add_session wrote returns without
\* error and leaves history and sessions equal to the sequences saved, in the
\* same order, and bookmarks with the same set of entries.
C1_RoundTrip ==
    (last.op \in LoadOps /\ saved.valid) =>
        /\ last.ex = "none"
        /\ history = saved.h
        /\ sessions = saved.s
        /\ IsList(bookmarks)
        /\ Items(bookmarks) = Items(saved.b)

\* C1 witness: a new instance has loaded a file holding two messages in order
\* and a bookmark.
C1_Witness ==
    /\ last.op \in LoadOps
    /\ saved.valid
    /\ ~saved.own
    /\ history = List(<<Message("user", "hi"), Message("assistant", "yo")>>)
    /\ Len(bookmarks.v) = 1

\* C2 (as claimed): a load of an existing file whose content is not parsable
\* returns without error and leaves all three sequences empty.
C2_CorruptNeverRaises ==
    (last.op \in LoadOps /\ Unparsable(file)) => (last.ex = "none" /\ AllEmpty)

\* C3 (as claimed): a load of a file that parses to a value that is not an
\* object returns without error and leaves history an empty list.
C3_LegacyShape ==
    (last.op \in LoadOps /\ NotAnObject(file)) =>
        (last.ex = "none" /\ history = EmptyList)

\* C4 (as claimed): in every reachable state no two entries of bookmarks are
\* equal.
C4_NoDuplicateBookmarks == IsList(bookmarks) /\ NoDuplicates(bookmarks)

\* C5: right after a successful save or save_async the file holds exactly the
\* object {history, bookmarks, sessions} of the three sequences in memory.
C5_FileReflectsMemory ==
    (last.op \in {"save", "save_async"} /\ last.ex = "none") =>
        FileHolds(file, history, bookmarks, sessions)

\* C5 witness: a save_async of a non-empty store has replaced what the file held.
C5_Witness ==
    /\ last.op = "save_async"
    /\ last.ex = "none"
    /\ Len(history.v) = 2
    /\ Len(sessions.v) = 1

\* C10 (as claimed): a load that finds no file, at the existence check or at
\* the open after it, returns without error and leaves the three sequences as
\* they were before the load.
C10_MissingKeepsState ==
    [][(last'.op \in LoadOps /\ ~file.exists) =>
          /\ last'.ex = "none"
          /\ history' = history
          /\ bookmarks' = bookmarks
          /\ sessions' = sessions]_vars

\* C10 (amended): a load that finds no file at the existence check returns
\* without error and leaves the three sequences as they were; a load whose
\* file disappears between the existence check and the open returns without
\* error and leaves the three sequences empty.
C10_MissingFile ==
    [][(last'.op \in LoadOps /\ ~file.exists) =>
          /\ last'.ex = "none"
          /\ IF pc = "idle"
             THEN history' = history /\ bookmarks' = bookmarks /\ sessions' = sessions
             ELSE history' = EmptyList /\ bookmarks' = EmptyList /\ sessions' = EmptyList]_vars

\* C10 witness: a store holding data has run a load on a path with no file.
C10_Witness ==
    /\ last.op \in LoadOps
    /\ last.path = "nofile"
    /\ ~file.exists
    /\ Len(history.v) = 1
    /\ Len(bookmarks.v) = 1

\* The value a file's top-level object has under a key, [] when the key is absent.
Under(f, key) ==
    LET data == JsonLoads(f.text).v.v IN
    IF key \in DOMAIN data THEN data[key] ELSE EmptyList

\* C11: add_bookmark(d) leaves d bookmarked, and add_bookmark(d) on a store
\* where d is bookmarked, as it is right after add_bookmark(d), leaves the
\* bookmarks sequence as it is.
C11_BookmarkIdempotent ==
    [][\A doc \in Docs :
          add_bookmark(doc) =>
              /\ PyIn(doc, bookmarks')
              /\ PyIn(doc, bookmarks) => bookmarks' = bookmarks]_vars

\* C11 witness: add_bookmark found its document bookmarked, and the store
\* holds this one bookmark.
C11_Witness ==
    /\ last = Done("add_bookmark", "none", "known")
    /\ bookmarks = List(<<Doc1>>)

\* C12: right after a load that parsed an object, each of the three sequences
\* is the value under its key in the file, and [] when the key is absent.
C12_LoadReplaces ==
    (last.op \in LoadOps /\ last.path = "ok") =>
        /\ history = Under(file, "history")
        /\ bookmarks = Under(file, "bookmarks")
        /\ sessions = Under(file, "sessions")

\* C12 witness: a load of an object with the key history alone.
C12_Witness ==
    /\ last.op \in LoadOps
    /\ last.path = "ok"
    /\ DOMAIN JsonLoads(file.text).v.v = {"history"}
    /\ history = List(<<Message("user", "hi")>>)
    /\ bookmarks = EmptyList
    /\ sessions = EmptyList

\* C18: right after add_session, or add_bookmark of a document not yet
\* bookmarked, has returned without error, the file is the serialization of
\* the three sequences in memory.
C18_WriteThrough ==
    (/\ last.op \in {"add_bookmark", "add_session"}
     /\ last.ex = "none"
     /\ last.path # "known") =>
        file = Content(JsonDumps(SaveData(history, bookmarks, sessions)))

\* C18 witness: add_session has returned on a store that holds a message and
\* a bookmark.
C18_Witness ==
    /\ last = Done("add_session", "none", "")
    /\ Len(history.v) = 1
    /\ Len(bookmarks.v) = 1
    /\ Len(sessions.v) = 1

\* C19: append puts the message after the earlier messages, which stay as
\* they are, and changes neither bookmarks nor sessions nor the file.
C19_AppendFrame ==
    [][last'.op = "append" =>
          /\ Len(history'.v) = Len(history.v) + 1
          /\ SubSeq(history'.v, 1, Len(history.v)) = history.v
          /\ history'.v[Len(history'.v)] \in Msgs
          /\ bookmarks' = bookmarks
          /\ sessions' = sessions
          /\ file' = file]_vars

\* C19 witness: a second, different message has been appended, and there is
\* still no file.
C19_Witness ==
    /\ last.op = "append"
    /\ history = List(<<Message("user", "hi"), Message("assistant", "yo")>>)
    /\ ~file.exists

\* C20: clear empties history and changes neither bookmarks nor sessions nor
\* the file, so that a load right after it gives the saved transcript back.
C20_ClearFrame ==
    [][last'.op = "clear" =>
          /\ history' = EmptyList
          /\ bookmarks' = bookmarks
          /\ sessions' = sessions
          /\ file' = file
          /\ saved'.valid =>
                LoadTry(file', history', bookmarks', sessions').h = saved'.h]_vars

\* C20 witness: a store whose file holds a saved message and a bookmark has
\* been cleared.
C20_Witness ==
    /\ last.op = "clear"
    /\ saved.valid
    /\ Len(saved.h.v) = 1
    /\ Len(bookmarks.v) = 1
    /\ history = EmptyList

\* C21: every add_session(s) leaves the sessions sequence one longer, with s
\* after the sessions stored before, whether or not s was among them and
\* whether or not the save it triggers raises.
C21_SessionAlwaysAppends ==
    [][\A session \in Sess :
          add_session(session) => sessions'.v = Append(sessions.v, session)]_vars

\* C21 witness: add_session has stored a session equal to the one stored before.
C21_Witness ==
    /\ last.op = "add_session"
    /\ Len(sessions.v) = 2
    /\ sessions.v[1] = sessions.v[2]

\* C30: right after a save or save_async that found the directory of its path
\* missing and returned without error, the directory exists and the file
\* holds the three sequences of the store.
C30_DirectoryCreated ==
    (last.op \in {"save", "save_async"} /\ last.path = "created" /\ last.ex = "none") =>
        /\ dir = "exists"
        /\ file.exists
        /\ FileHolds(file, history, bookmarks, sessions)

\* C30 witness: save_async has created the directory and written a store
\* that holds a message.
C30_Witness ==
    /\ last = Done("save_async", "none", "created")
    /\ dir = "exists"
    /\ file.exists
    /\ Len(history.v) = 1

\* C13 (as claimed): for any state of the store, and however the operating
\* system answers, save and save_async leave the same file contents.
C13_SameBytes ==
    \A io \in IOOutcomes :
        SyncDump(file, SaveData(history, bookmarks, sessions), io)
            = AsyncDump(file, SaveData(history, bookmarks, sessions), io)

(***************************************************************************)
(* Properties of overlapping calls                                          *)
(***************************************************************************)
AllDone == Started # {} /\ \A i \in Started : tasks[i].pc = "done"
SomeSaveDone == \E i \in Started : tasks[i].kind = "save_async" /\ tasks[i].pc = "done"
Raised(i) == tasks[i].pc = "done" /\ tasks[i].how \in {"AttributeError", "UnicodeDecodeError"}

\* C9 (as claimed): when save_async and load_async calls overlap on one store,
\* none of them raises, history stays a list, and once all have completed the
\* file holds exactly the text written by the save that completed last.
C9_LastWriteWins ==
    /\ \A i \in Started : ~Raised(i)
    /\ IsList(history)
    /\ (AllDone /\ SomeSaveDone /\ overlapping) => file = Content(lastWrite)

(***************************************************************************)
(* The tool-server lifecycle of one model call                              *)
(*                                                                          *)
(* verify_mcp.py shows the pattern: MCPServerStdio(command, args) makes an  *)
(* instance, "async with agent.run_mcp_servers(...)" starts its process     *)
(* and stops it when the block is left, by return, exception or             *)
(* cancellation.                                                            *)
(***************************************************************************)
LaunchCommand == <<"npx", "-y", "@upstash/context7-mcp@latest">>

\* A single long-lived instance: a running instance is handed out again.
Spawn_pooled(srv, ok) ==
    IF \E k \in 1..Len(srv) : srv[k].state = "running"
    THEN srv
    ELSE Append(srv, [cmd |-> LaunchCommand, state |-> IF ok THEN "running" ELSE "failed"])

\* MCPServerStdio(command="npx", args=[...]) and entering run_mcp_servers: a
\* new instance, whose process runs when the launch works.
Spawn(srv, ok) ==
    Append(srv, [cmd |-> LaunchCommand, state |-> IF ok THEN "running" ELSE "failed"])

\* Plain "with"-less use: the block is left and the process keeps running.
ServerExit_leak(srv, k) == srv

\* A release that stops every instance there is.
ServerExit_all(srv, k) == [j \in 1..Len(srv) |-> [srv[j] EXCEPT !.state = "terminated"]]

\* Leaving "async with agent.run_mcp_servers(...)": the instance's process is stopped.
ServerExit(srv, k) == [srv EXCEPT ![k].state = "terminated"]

(***************************************************************************)
(* Context7Agent.chat(user_text, history)                                   *)
(*                                                                          *)
(* Acquire a tool server, invoke the model, release the tool server,        *)
(* deliver the result or the error.                                         *)
(***************************************************************************)
MaxCalls == 3   \* the chat calls made in one run

Inputs == {"hi"}
Replies == {"yo"}

Result(text) == [kind |-> "result", v |-> text]
Error(msg) == [kind |-> "error", v |-> msg]
Cancelled == [kind |-> "cancelled", v |-> ""]
NoOutcome == [kind |-> "none", v |-> ""]

\* What agent.run can end with: a reply, an exception, or the cancellation of
\* the task that awaits it.
ModelOutcomes == {Result(r) : r \in Replies} \cup {Error("model call failed"), Cancelled}

\* One call of chat or chat_stream: where it is, the instance it holds, how
\* often it has spawned a server and invoked the model, what the model ended
\* with, what the caller gets; for chat_stream also the model's stream, the
\* units not yet taken from it, the pieces of the current unit not yet
\* yielded, and the fragments the caller has received.
Call(text, at, server, out, alone) ==
    [text |-> text, pc |-> at, server |-> server, out |-> out, alone |-> alone,
     kind |-> "chat", spawns |-> 0, runs |-> 0, model |-> NoOutcome,
     script |-> <<>>, rest |-> <<>>, buf |-> <<>>, yielded |-> <<>>]

\* An engine that answers an error with a reply of its own.
Deliver_fallback(o) == IF o.kind = "error" THEN Result("sorry") ELSE o

\* Steps 3 and 4: the caller gets the model's result, or the error unchanged.
Deliver(o) == o

InFlight(c) == calls[c].pc # "done"
NewCall(text) == Call(text, "acquire", 0, NoOutcome, \A c \in 1..Len(calls) : ~InFlight(c))

ChatOnly == UNCHANGED <<dir, pc, last, saved, asyncVars>>
StoreSame == UNCHANGED <<history, bookmarks, sessions, file>>

\* chat() is called.
chat_start(text) ==
    /\ Len(calls) < MaxCalls
    /\ calls' = Append(calls, NewCall(text))
    /\ UNCHANGED <<servers, repl>>
    /\ StoreSame
    /\ ChatOnly

\* An engine that tries the launch again after a failure.
chat_acquire_retry(c) ==
    /\ calls[c].pc = "acquire"
    /\ calls[c].spawns < 2
    /\ \E ok \in BOOLEAN :
        /\ servers' = Spawn(servers, ok)
        /\ calls' = [calls EXCEPT ![c] =
                        IF ok
                        THEN [@ EXCEPT !.pc = "model", !.server = Len(servers'),
                                       !.spawns = @ + 1]
                        ELSE [@ EXCEPT !.server = Len(servers'), !.spawns = @ + 1]]
    /\ UNCHANGED repl
    /\ StoreSame
    /\ ChatOnly

\* Step 1: a tool server is spawned for this call; a launch failure ends the call.
chat_acquire(c) ==
    /\ calls[c].pc = "acquire"
    /\ \E ok \in BOOLEAN :
        /\ servers' = Spawn(servers, ok)
        /\ calls' = [calls EXCEPT ![c] =
                        IF ok
                        THEN [@ EXCEPT !.pc = "model", !.server = Len(servers'),
                                       !.spawns = @ + 1]
                        ELSE [@ EXCEPT !.pc = "done", !.server = Len(servers'),
                                       !.spawns = @ + 1,
                                       !.out = Deliver(Error("launch failed"))]]
    /\ UNCHANGED repl
    /\ StoreSame
    /\ ChatOnly

\* Step 2: the model is invoked once; what it ends with waits for the release.
chat_model(c) ==
    /\ calls[c].pc = "model"
    /\ calls[c].kind = "chat"
    /\ \E o \in ModelOutcomes :
        calls' = [calls EXCEPT ![c] = [@ EXCEPT !.pc = "release", !.runs = @ + 1,
                                                !.model = o, !.out = Deliver(o)]]
    /\ UNCHANGED <<servers, repl>>
    /\ StoreSame
    /\ ChatOnly

\* An engine that stops the tool server and then goes back to the model.
chat_release_reenter(c) ==
    /\ calls[c].pc = "release"
    /\ servers' = ServerExit(servers, calls[c].server)
    /\ calls' = [calls EXCEPT ![c] =
                    [@ EXCEPT !.pc = IF calls[c].runs < 2 /\ calls[c].kind = "chat"
                                     THEN "model" ELSE "done"]]
    /\ UNCHANGED repl
    /\ StoreSame
    /\ ChatOnly

\* The call leaves the tool-server block, then returns, raises or is cancelled.
chat_release(c) ==
    /\ calls[c].pc = "release"
    /\ servers' = ServerExit(servers, calls[c].server)
    /\ calls' = [calls EXCEPT ![c] = [@ EXCEPT !.pc = "done"]]
    /\ UNCHANGED repl
    /\ StoreSame
    /\ ChatOnly

ChatInit ==
    /\ StoreInit
    /\ file = Absent
    /\ dir = "exists"
    /\ tasks = NoTasks
    /\ lastWrite = <<>>
    /\ overlapping = TRUE
    /\ calls = <<>>
    /\ servers = <<>>
    /\ repl = NoRepl

ChatNext ==
    \/ \E text \in Inputs : chat_start(text)
    \/ \E c \in 1..Len(calls) : chat_acquire(c)
    \/ \E c \in 1..Len(calls) : chat_model(c)
    \/ \E c \in 1..Len(calls) : chat_release(c)

SpecChat == ChatInit /\ [][ChatNext]_vars

(***************************************************************************)
(* Context7Agent.chat_stream(user_text) and the stream aggregator            *)
(*                                                                          *)
(* The same set-up as chat; the model call is the streaming variant.  The   *)
(* model's stream yields units, each unit exposes a collection of text      *)
(* pieces, and the caller receives the pieces one by one.                   *)
(***************************************************************************)
MaxStreams == 1   \* the chat_stream calls made in one run

Unit(deltas) == [deltas |-> deltas]

\* The streams the model produces: Hello, space, world in one unit, and the
\* same fragments spread over units, one of them empty.
Streams ==
    { <<Unit(<<"Hello", " ", "world">>)>>,
      <<Unit(<<"Hello">>), Unit(<<>>), Unit(<<" ", "world">>)>> }

\* The pieces of a unit taken from last to first.
TextDeltas_reversed(unit) ==
    [i \in 1..Len(unit.deltas) |-> unit.deltas[Len(unit.deltas) + 1 - i]]

\* unit.text_deltas(): the text pieces of a unit, in their order.
TextDeltas(unit) == unit.deltas

\* What a caller makes of the fragments it has received: their concatenation.
RECURSIVE Join(_)
Join(frags) == IF frags = <<>> THEN "" ELSE Head(frags) \o Join(Tail(frags))

StreamCalls == {c \in 1..Len(calls) : calls[c].kind = "chat_stream"}

\* chat_stream() is called; the stream is what the model will produce.
chat_stream_start(text) ==
    /\ Cardinality(StreamCalls) < MaxStreams
    /\ \E script \in Streams :
        calls' = Append(calls, [NewCall(text) EXCEPT !.kind = "chat_stream",
                                                     !.script = script])
    /\ UNCHANGED <<servers, repl>>
    /\ StoreSame
    /\ ChatOnly

\* The streaming model call is made: the stream opens, or the call raises.
chat_stream_open(c) ==
    /\ calls[c].pc = "model"
    /\ calls[c].kind = "chat_stream"
    /\ \E o \in {NoOutcome, Error("model call failed"), Cancelled} :
        calls' = [calls EXCEPT ![c] =
                    IF o = NoOutcome
                    THEN [@ EXCEPT !.pc = "stream", !.runs = @ + 1, !.rest = calls[c].script]
                    ELSE [@ EXCEPT !.pc = "release", !.runs = @ + 1,
                                   !.model = o, !.out = Deliver(o)]]
    /\ UNCHANGED <<servers, repl>>
    /\ StoreSame
    /\ ChatOnly

\* The next unit arrives from the model, or the stream breaks.
chat_stream_unit(c) ==
    /\ calls[c].pc = "stream"
    /\ calls[c].buf = <<>>
    /\ calls[c].rest # <<>>
    /\ \E o \in {NoOutcome, Error("model call failed")} :
        calls' = [calls EXCEPT ![c] =
                    IF o = NoOutcome
                    THEN [@ EXCEPT !.buf = TextDeltas(Head(calls[c].rest)), !.rest = Tail(@)]
                    ELSE [@ EXCEPT !.pc = "release", !.model = o, !.out = Deliver(o)]]
    /\ UNCHANGED <<servers, repl>>
    /\ StoreSame
    /\ ChatOnly

\* The caller asks for the next fragment and gets the first piece not yet yielded.
chat_stream_yield(c) ==
    /\ calls[c].pc = "stream"
    /\ calls[c].buf # <<>>
    /\ calls' = [calls EXCEPT ![c] =
                    [@ EXCEPT !.yielded = Append(@, Head(calls[c].buf)), !.buf = Tail(@)]]
    /\ UNCHANGED <<servers, repl>>
    /\ StoreSame
    /\ ChatOnly

\* The model's stream has ended: so does the sequence of fragments.
chat_stream_end(c) ==
    /\ calls[c].pc = "stream"
    /\ calls[c].buf = <<>>
    /\ calls[c].rest = <<>>
    /\ calls' = [calls EXCEPT ![c] =
                    [@ EXCEPT !.pc = "release",
                              !.model = Result(Join(calls[c].yielded)),
                              !.out = Deliver(Result(Join(calls[c].yielded)))]]
    /\ UNCHANGED <<servers, repl>>
    /\ StoreSame
    /\ ChatOnly

\* One chat call, and chat_stream calls that may run while it runs.
StreamNext ==
    \/ \E text \in Inputs : calls = <<>> /\ chat_start(text)
    \/ \E text \in Inputs : chat_stream_start(text)
    \/ \E c \in 1..Len(calls) : chat_acquire(c)
    \/ \E c \in 1..Len(calls) : chat_model(c)
    \/ \E c \in 1..Len(calls) : chat_stream_open(c)
    \/ \E c \in 1..Len(calls) : chat_stream_unit(c)
    \/ \E c \in 1..Len(calls) : chat_stream_yield(c)
    \/ \E c \in 1..Len(calls) : chat_stream_end(c)
    \/ \E c \in 1..Len(calls) : chat_release(c)

SpecStream == ChatInit /\ [][StreamNext]_vars

(***************************************************************************)
(* One chat turn of the terminal front-end: main(), the try block that      *)
(* follows the slash commands                                               *)
(***************************************************************************)
\* history = agent.get_history() at start-up: an empty transcript or the pair
\* of an earlier run.
PriorTurn == List(<<Message("user", "hi"), Message("assistant", "yo")>>)
Transcripts == {EmptyList, PriorTurn}

\* The same with the user message appended before the call is awaited.
TurnHistory_userFirst(h, input, out) ==
    IF out.kind = "result"
    THEN PyAppend(PyAppend(h, Message("user", input)), Message("assistant", out.v))
    ELSE PyAppend(h, Message("user", input))

\* The same with the response appended alone.
TurnHistory_replyOnly(h, input, out) ==
    IF out.kind = "result"
    THEN PyAppend(h, Message("assistant", out.v))
    ELSE h

\* The same with the two appends in the other order.
TurnHistory_swapped(h, input, out) ==
    IF out.kind = "result"
    THEN PyAppend(PyAppend(h, Message("assistant", out.v)), Message("user", input))
    ELSE h

\* response = await agent.chat(...); history.append(user); history.append(assistant):
\* both appends come after the await, so an exception skips both.
TurnHistory(h, input, out) ==
    IF out.kind = "result"
    THEN PyAppend(PyAppend(h, Message("user", input)), Message("assistant", out.v))
    ELSE h

\* What the turn ends as: the two except clauses catch Exception, and a
\* cancellation is not one.
TurnEnd(out, io) ==
    CASE out.kind = "error"     -> "failed"
      [] out.kind = "cancelled" -> "cancelled"
      [] out.kind = "result"    -> IF io = "ok" THEN "done" ELSE "save_failed"

\* The same with no except clause around the turn: any failure ends main().
AfterTurn_uncaught(end) == IF end = "done" THEN "prompt" ELSE "exited"

\* Where main() stands after the turn: except Exception returns to the prompt;
\* a cancellation passes both except clauses and ends main().
AfterTurn(end) == IF end = "cancelled" THEN "exited" ELSE "prompt"

\* The same with the turn's results kept for /bookmark and /preview.
LastResultsAfterTurn_kept(old, end) == IF end = "done" THEN List(<<Doc1>>) ELSE old

\* last_results = [] is the last statement of the try block: it runs only
\* when the save succeeded.
LastResultsAfterTurn(old, end) == IF end = "done" THEN EmptyList ELSE old

\* The user types a line that is no command: agent.chat(user_input, history) starts.
repl_chat(text) ==
    /\ repl.pc = "prompt"
    /\ Len(calls) < MaxCalls
    /\ calls' = Append(calls, NewCall(text))
    /\ repl' = [repl EXCEPT !.pc = "chat", !.call = Len(calls) + 1,
                            !.before = history, !.turn = "running",
                            !.input = text, !.report = "",
                            !.asked = [kind |-> "line", text |-> text]]
    /\ UNCHANGED servers
    /\ StoreSame
    /\ ChatOnly

\* agent.chat has returned or raised: the rest of the try block, or the except clause.
repl_turn_done ==
    /\ repl.pc = "chat"
    /\ calls[repl.call].pc = "done"
    /\ LET out == calls[repl.call].out
           h == TurnHistory(history, repl.input, out)
       IN /\ history' = h
          /\ \E io \in IOOutcomes :
              /\ file' = IF out.kind = "result"
                         THEN WriteFile(file, JsonDumps(SaveData(h, bookmarks, sessions)), io)
                         ELSE file
              /\ saved' = IF out.kind = "result"
                          THEN SavedNow(h, bookmarks, sessions, io)
                          ELSE saved
              /\ last' = IF out.kind = "result"
                         THEN Done("save_history", IOError(io), "")
                         ELSE last
              /\ repl' = [repl EXCEPT !.turn = TurnEnd(out, io),
                                      !.pc = AfterTurn(TurnEnd(out, io)),
                                      !.last_results =
                                          LastResultsAfterTurn(@, TurnEnd(out, io))]
    /\ UNCHANGED <<bookmarks, sessions, dir, pc>>
    /\ UNCHANGED <<asyncVars, chatVars>>

\* "/exit", or end of input at the prompt.
repl_exit ==
    /\ repl.pc = "prompt"
    /\ repl' = [repl EXCEPT !.pc = "exited"]
    /\ UNCHANGED chatVars
    /\ StoreSame
    /\ ChatOnly

ReplInit ==
    /\ \E h \in Transcripts :
        /\ history = h
        /\ file = IF h = EmptyList THEN Absent
                  ELSE Content(JsonDumps(SaveData(h, EmptyList, EmptyList)))
        /\ repl = Repl("prompt", 0, h, "none", "")
    /\ bookmarks = EmptyList
    /\ sessions = EmptyList
    /\ dir = "exists"
    /\ pc = "idle"
    /\ last = Done("init", "none", "")
    /\ saved = NoSave
    /\ tasks = NoTasks
    /\ lastWrite = <<>>
    /\ overlapping = TRUE
    /\ calls = <<>>
    /\ servers = <<>>

ReplNext ==
    \/ \E text \in Inputs : repl_chat(text)
    \/ \E c \in 1..Len(calls) : chat_acquire(c)
    \/ \E c \in 1..Len(calls) : chat_model(c)
    \/ \E c \in 1..Len(calls) : chat_release(c)
    \/ repl_turn_done
    \/ repl_exit

SpecRepl == ReplInit /\ [][ReplNext]_vars

(***************************************************************************)
(* main(): the pre-flight check, the prompt loop and its commands           *)
(***************************************************************************)
MaxTurns == 2   \* the chat turns taken in one run of main()

\* How subprocess.run([...], capture_output=True, timeout=5) can end: exit
\* status 0, another exit status, TimeoutExpired, FileNotFoundError.
Probes == {"ok", "nonzero", "timeout", "missing"}

\* check_nodejs(): the node probe first; its exit status 0 returns True at
\* once, its exception returns False; the npx probe runs only after a node
\* probe that exited non-zero.
CheckNodejs(node, npx) ==
    IF node = "ok" THEN TRUE
    ELSE IF node \in {"timeout", "missing"} THEN FALSE
    ELSE IF npx = "ok" THEN TRUE
    ELSE FALSE

\* A main() that enters the loop whatever check_nodejs says.
GateNext_open(ok) == "prompt"

\* if not check_nodejs(): ...; return
GateNext(ok) == IF ok THEN "prompt" ELSE "exited"

\* A line is the sequence of its words, as str.split() gives them; a blank
\* line has none.  str.lower() on the words that are typed here.
LowerOf == ("/EXIT" :> "/exit") @@ ("/HELP" :> "/help") @@ ("/THEME" :> "/theme")
Lower(w) == IF w \in DOMAIN LowerOf THEN LowerOf[w] ELSE w
LineLower(line) == [i \in 1..Len(line) |-> Lower(line[i])]

\* str.startswith(p) on the words that are typed here: case matters.
Stem == ("/bookmarks" :> "/bookmark")
StartsWith(line, p) ==
    /\ line # <<>>
    /\ \/ line[1] = p
       \/ line[1] \in DOMAIN Stem /\ Stem[line[1]] = p

\* The line as one string, the words a blank apart.
RECURSIVE Text(_)
Text(line) ==
    IF line = <<>> THEN ""
    ELSE IF Len(line) = 1 THEN line[1]
    ELSE line[1] \o " " \o Text(Tail(line))

Themes == {"cyberpunk", "ocean", "forest", "sunset"}

\* int(word)
Digits == ("0" :> 0) @@ ("1" :> 1) @@ ("2" :> 2)

\* list[idx], with Python's negative indices.
InRange(l, idx) == -Len(l.v) <= idx /\ idx < Len(l.v)
PyItem(l, idx) == IF idx >= 0 THEN l.v[idx + 1] ELSE l.v[Len(l.v) + idx + 1]

\* idx = int(user_input.split()[1]) - 1; doc = last_results[idx]
Pick(line, results) ==
    IF Len(line) < 2 THEN [ok |-> FALSE, ex |-> "IndexError", doc |-> Str("")]
    ELSE IF line[2] \notin DOMAIN Digits
    THEN [ok |-> FALSE, ex |-> "ValueError", doc |-> Str("")]
    ELSE IF ~InRange(results, Digits[line[2]] - 1)
    THEN [ok |-> FALSE, ex |-> "IndexError", doc |-> Str("")]
    ELSE [ok |-> TRUE, ex |-> "none", doc |-> PyItem(results, Digits[line[2]] - 1)]

\* The lines typed at the prompt.
Lines ==
    { <<>>, <<"/exit">>, <<"/EXIT">>, <<"/help">>, <<"/HELP">>,
      <<"/theme", "ocean">>, <<"/theme", "neon">>,
      <<"/THEME", "ocean">>, <<"/history">>,
      <<"/bookmark">>, <<"/bookmarks">>, <<"/bookmark", "1">>,
      <<"/bookmark", "0">>, <<"/bookmark", "x">>,
      <<"/preview">>, <<"/preview", "1">>,
      <<"/analytics">>, <<"hi">> }

\* The if/elif chain with no lower() in its comparisons.
Dispatch_caseSensitive(line) ==
    IF line = <<>> THEN "blank"
    ELSE IF line = <<"/exit">> THEN "exit"
    ELSE IF line = <<"/help">> THEN "help"
    ELSE IF StartsWith(line, "/theme") THEN "theme"
    ELSE IF line = <<"/history">> THEN "history"
    ELSE IF StartsWith(line, "/bookmark") THEN "bookmark"
    ELSE IF StartsWith(line, "/preview") THEN "preview"
    ELSE IF line = <<"/analytics">> THEN "analytics"
    ELSE "chat"

\* The if/elif chain of the loop body, in its order; what reaches the end of
\* it is a chat message.
Dispatch(line) ==
    IF line = <<>> THEN "blank"
    ELSE IF LineLower(line) = <<"/exit">> THEN "exit"
    ELSE IF LineLower(line) = <<"/help">> THEN "help"
    ELSE IF StartsWith(line, "/theme") THEN "theme"
    ELSE IF LineLower(line) = <<"/history">> THEN "history"
    ELSE IF StartsWith(line, "/bookmark") THEN "bookmark"
    ELSE IF StartsWith(line, "/preview") THEN "preview"
    ELSE IF LineLower(line) = <<"/analytics">> THEN "analytics"
    ELSE "chat"

\* /theme: parts = user_input.split(); len(parts) > 1 and parts[1] in [...]
ThemeAfter(line, theme) ==
    IF Len(line) > 1 /\ line[2] \in Themes THEN line[2] ELSE theme

\* /history: msg.get(...) for msg in history raises AttributeError on an
\* entry that is no dict; the outer except Exception ends main().
HistoryShown(h) == \A i \in 1..Len(h.v) : IsDict(h.v[i])

\* What the command prints.
Report(kind, line, h, results) ==
    CASE kind = "blank"     -> ""
      [] kind = "exit"      -> "Goodbye!"
      [] kind = "help"      -> "help"
      [] kind = "theme"     -> IF Len(line) > 1 /\ line[2] \in Themes
                               THEN "Theme switched" ELSE "Invalid theme."
      [] kind = "history"   -> IF HistoryShown(h) THEN "Conversation History"
                               ELSE "Application error"
      [] kind = "bookmark"  -> IF Pick(line, results).ok THEN "Bookmarked!"
                               ELSE "Invalid bookmark index."
      [] kind = "preview"   -> IF Pick(line, results).ok THEN "preview"
                               ELSE "Invalid preview index."
      [] kind = "analytics" -> "Analytics coming soon!"

\* break, continue, or the exception that leaves the loop.
CommandNext(kind, h) ==
    IF kind = "exit" \/ (kind = "history" /\ ~HistoryShown(h))
    THEN "exited" ELSE "prompt"

\* if not check_nodejs(): return -- the probes' results do not outlive the check.
main_preflight ==
    /\ repl.pc = "start"
    /\ LET ok == CheckNodejs(repl.node, repl.npx) IN
        repl' = [repl EXCEPT !.gate = IF ok THEN "passed" ELSE "refused",
                             !.pc = GateNext(ok),
                             !.node = "", !.npx = ""]
    /\ UNCHANGED chatVars
    /\ StoreSame
    /\ ChatOnly

\* A line that is blank or a command is read at the prompt and handled.
repl_command(line) ==
    /\ repl.pc = "prompt"
    /\ Dispatch(line) # "chat"
    /\ LET kind == Dispatch(line)
           pick == Pick(line, repl.last_results)
       IN /\ IF kind = "bookmark" /\ pick.ok /\ IsNewBookmark(pick.doc, bookmarks)
             THEN \* agent.history.add_bookmark(doc)
                  /\ bookmarks' = PyAppend(bookmarks, pick.doc)
                  /\ \E io \in SaveOutcomes(dir) :
                      LET data == SaveData(history, bookmarks', sessions) IN
                      /\ file' = SyncDump(file, data, io)
                      /\ saved' = SavedNow(history, bookmarks', sessions,
                                           Outcome(data, io))
                      /\ last' = Done("add_bookmark", IOError(Outcome(data, io)),
                                      "added")
                      /\ dir' = DirAfter(dir, io)
                      /\ repl' = [repl EXCEPT
                                    !.asked = [kind |-> "line", text |-> Text(line)],
                                    !.report = IF Outcome(data, io) = "ok"
                                               THEN "Bookmarked!"
                                               ELSE "Application error",
                                    !.pc = IF Outcome(data, io) = "ok"
                                           THEN "prompt" ELSE "exited"]
             ELSE /\ repl' = [repl EXCEPT
                                !.asked = [kind |-> "line", text |-> Text(line)],
                                !.theme = IF kind = "theme"
                                          THEN ThemeAfter(line, @) ELSE @,
                                !.report = Report(kind, line, history,
                                                  repl.last_results),
                                !.pc = CommandNext(kind, history)]
                  /\ UNCHANGED <<bookmarks, file, saved, last, dir>>
    /\ UNCHANGED <<history, sessions, pc>>
    /\ UNCHANGED <<asyncVars, chatVars>>

\* Prompt.ask raises EOFError or KeyboardInterrupt: Goodbye, break.
repl_interrupt ==
    /\ repl.pc = "prompt"
    /\ \E k \in {"eof", "interrupt"} :
        repl' = [repl EXCEPT !.asked = [kind |-> k, text |-> ""],
                             !.report = "Goodbye!", !.pc = "exited"]
    /\ UNCHANGED chatVars
    /\ StoreSame
    /\ ChatOnly

\* The transcript agent.get_history() gives after agent.initialize(): none, the
\* pair of an earlier run, or what a file written by another program held.
MainTranscripts == Transcripts \cup {List(<<Str("hi")>>)}

\* The backing file that initialize() read the transcript from.
FileOf(h) ==
    IF h = EmptyList THEN Absent
    ELSE Content(JsonDumps(SaveData(h, EmptyList, EmptyList)))

\* main() up to last_results = []: the agent is initialized, nothing is probed yet.
MainInit ==
    /\ \E h \in MainTranscripts, node \in Probes, npx \in Probes :
        /\ history = h
        /\ file = FileOf(h)
        /\ repl = [Repl("start", 0, h, "none", "") EXCEPT
                     !.node = node, !.npx = npx, !.gate = "none"]
    /\ bookmarks = EmptyList
    /\ sessions = EmptyList
    /\ dir = "exists"
    /\ pc = "idle"
    /\ last = Done("init", "none", "")
    /\ saved = NoSave
    /\ tasks = NoTasks
    /\ lastWrite = <<>>
    /\ overlapping = TRUE
    /\ calls = <<>>
    /\ servers = <<>>

MainNext ==
    \/ main_preflight
    \/ \E line \in Lines : repl_command(line)
    \/ repl_interrupt
    \/ \E line \in Lines :
        Dispatch(line) = "chat" /\ Len(calls) < MaxTurns /\ repl_chat(Text(line))
    \/ \E c \in 1..Len(calls) : chat_acquire(c)
    \/ \E c \in 1..Len(calls) : chat_model(c)
    \/ \E c \in 1..Len(calls) : chat_release(c)
    \/ repl_turn_done

SpecMain == MainInit /\ [][MainNext]_vars

(***************************************************************************)
(* Properties of the chat calls                                             *)
(***************************************************************************)
Finished(c) == calls[c].pc = "done"
ServerOf(c) == servers[calls[c].server]
Acquired == {c \in 1..Len(calls) : calls[c].server # 0}
EndedAs(kind) == \E c \in 1..Len(calls) : Finished(c) /\ calls[c].out.kind = kind

\* C6: no chat call has finished (returned, failed or been cancelled) while
\* the tool-server process acquired for it is still running.
C6_ServerTerminated ==
    \A c \in 1..Len(calls) : Finished(c) => ServerOf(c).state # "running"

\* Calls have ended on each of the three paths, each with its server stopped.
C6_Witness ==
    /\ EndedAs("result") /\ EndedAs("error") /\ EndedAs("cancelled")
    /\ \A c \in 1..Len(calls) :
        Finished(c) /\ calls[c].out.v # "launch failed" => ServerOf(c).state = "terminated"
    /\ \E c \in 1..Len(calls) : Finished(c) /\ calls[c].out.v = "model call failed"

\* C7: every chat call that has acquired a tool server has an instance of its
\* own, launched with npx -y @upstash/context7-mcp@latest; as many instances
\* have been spawned as calls have acquired one.
C7_OneServerPerCall ==
    /\ Len(servers) = Cardinality(Acquired)
    /\ \A c, d \in Acquired : c # d => calls[c].server # calls[d].server
    /\ \A k \in 1..Len(servers) : servers[k].cmd = LaunchCommand

\* Two calls made one after the other have both finished: two instances.
C7_Witness ==
    /\ Len(calls) = 2
    /\ Finished(1) /\ Finished(2)
    /\ calls[2].alone
    /\ calls[1].out.kind = "result" /\ calls[2].out.kind = "result"
    /\ Len(servers) = 2

\* C8: while a chat turn is awaited, and after it has failed (the spawn or
\* the model call raised), the transcript is what it was before the turn.
C8_FailedTurnNotAppended ==
    (repl.pc = "chat" \/ repl.turn = "failed") => history = repl.before

\* A turn has failed at the model, an earlier one at the spawn, and the
\* transcript still holds the prior turn.
C8_Witness ==
    /\ repl.pc = "prompt"
    /\ repl.turn = "failed"
    /\ calls[repl.call].out.v = "model call failed"
    /\ \E c \in 1..Len(calls) : calls[c].out.v = "launch failed"
    /\ history = PriorTurn

\* C14: a call whose tool server failed to launch has ended with the launch
\* error, after one spawn and without any model invocation.
C14_LaunchFailure ==
    \A c \in Acquired :
        ServerOf(c).state = "failed" =>
            /\ Finished(c)
            /\ calls[c].out = Error("launch failed")
            /\ calls[c].spawns = 1
            /\ calls[c].runs = 0
            /\ calls[c].model = NoOutcome

\* A call has failed at the launch, after a call that returned a result.
C14_Witness ==
    /\ Len(calls) = 2
    /\ calls[1].out.kind = "result" /\ Finished(1)
    /\ calls[2].out = Error("launch failed") /\ Finished(2)
    /\ Len(servers) = 2
    /\ servers[2].state = "failed"

\* C15: in chat and in chat_stream the model is invoked at most once per call,
\* and a call whose model call raised gives its caller that very error.
C15_ModelErrorUnchanged ==
    \A c \in 1..Len(calls) :
        /\ calls[c].runs <= 1
        /\ calls[c].model.kind = "error" =>
              /\ calls[c].runs = 1
              /\ calls[c].out = calls[c].model

\* A chat call has failed at the model, and a chat_stream call at a unit
\* after its first fragments.
C15_Witness ==
    /\ Len(calls) = 2
    /\ Finished(1) /\ Finished(2)
    /\ calls[1].kind = "chat" /\ calls[1].out = Error("model call failed")
    /\ calls[2].kind = "chat_stream" /\ calls[2].out = Error("model call failed")
    /\ calls[2].yielded = <<"Hello">>

\* The fragments of a sequence of units, unit by unit.
RECURSIVE Flatten(_)
Flatten(units) == IF units = <<>> THEN <<>> ELSE Head(units).deltas \o Flatten(Tail(units))

\* C16: the fragments a chat_stream call has yielded, those of the current
\* unit still to come and those of the units not yet arrived make up the
\* model's stream in its order; when the stream has ended, the fragments
\* yielded are those of the stream and concatenate to the full response.
C16_StreamOrder ==
    \A c \in StreamCalls :
        /\ calls[c].pc = "stream" =>
              calls[c].yielded \o calls[c].buf \o Flatten(calls[c].rest)
                  = Flatten(calls[c].script)
        /\ calls[c].model.kind = "result" =>
              /\ calls[c].yielded = <<"Hello", " ", "world">>
              /\ calls[c].yielded = Flatten(calls[c].script)
              /\ calls[c].out = Result("Hello world")

\* A stream of three units, one of them empty, has been yielded to its end.
C16_Witness ==
    \E c \in StreamCalls :
        /\ Finished(c)
        /\ Len(calls[c].script) = 3
        /\ calls[c].out = Result("Hello world")
        /\ calls[c].yielded = <<"Hello", " ", "world">>

\* C17: chat calls that run at the same time hold different tool-server
\* instances; the instance of a call in progress is running, whatever other
\* calls have released; a call that returns gives the result of its own model call.
C17_NoInterference ==
    /\ Cardinality({calls[c].server : c \in Acquired}) = Cardinality(Acquired)
    /\ \A c \in 1..Len(calls) :
        /\ calls[c].pc \in {"model", "release"} => ServerOf(c).state = "running"
        /\ (Finished(c) /\ calls[c].model.kind = "result") => calls[c].out = calls[c].model

\* Three calls were in progress together; the first has returned its result
\* and released its server while the others still await the model.
C17_Witness ==
    /\ Len(calls) = 3
    /\ ~calls[2].alone /\ ~calls[3].alone
    /\ Finished(1) /\ calls[1].out.kind = "result"
    /\ servers[calls[1].server].state = "terminated"
    /\ calls[2].pc = "model" /\ calls[3].pc = "model"
    /\ Len(servers) = 3

\* A step in which the model works for call c: it is invoked, it delivers a
\* unit of its stream, or it ends with a result or an error.
ModelStep(c) ==
    \/ calls'[c].runs # calls[c].runs
    \/ calls'[c].rest # calls[c].rest
    \/ calls'[c].model # calls[c].model

\* C22: the model works for a call only while the tool server the call has
\* acquired is running; the server is stopped only once the model call has
\* ended and its outcome is set; after that the call takes no further step.
C22_StepOrder ==
    [][\A c \in 1..Len(calls) :
          /\ ModelStep(c) =>
                /\ calls[c].server # 0
                /\ servers[calls[c].server].state = "running"
          /\ (/\ calls[c].server # 0
              /\ servers[calls[c].server].state = "running"
              /\ servers'[calls[c].server].state # "running") =>
                /\ calls[c].runs = 1
                /\ calls[c].out # NoOutcome
                /\ calls'[c].pc = "done"
          /\ calls[c].pc = "done" => calls'[c] = calls[c]]_vars

\* A chat call and a chat_stream call have each gone through the four steps.
C22_Witness ==
    /\ Len(calls) = 2
    /\ calls[1].kind = "chat" /\ calls[2].kind = "chat_stream"
    /\ \A c \in {1, 2} :
        /\ Finished(c)
        /\ calls[c].out.kind = "result"
        /\ calls[c].spawns = 1 /\ calls[c].runs = 1
        /\ ServerOf(c).state = "terminated"

(***************************************************************************)
(* Properties of main()                                                     *)
(***************************************************************************)
\* C23 (as claimed): whenever the npx probe fails (npx missing, timing out or
\* exiting non-zero), check_nodejs returns False, whatever the node probe
\* gave.
C23_BothProbes ==
    [][(repl.pc = "start" /\ repl.npx # "ok") => repl'.gate = "refused"]_vars

\* C24: once check_nodejs has returned False, main() has returned: nothing
\* was read at the prompt, no chat call and no tool server exists, and the
\* transcript and the file are the ones main() began with.
C24_GateRefuses ==
    repl.gate = "refused" =>
        /\ repl.pc = "exited"
        /\ repl.asked.kind = "none"
        /\ calls = <<>>
        /\ servers = <<>>
        /\ history = repl.initial
        /\ file = FileOf(repl.initial)

\* The check has failed on a machine that has npx but no node, with a
\* transcript of an earlier run.
C24_Witness ==
    /\ repl.gate = "refused"
    /\ repl.pc = "exited"
    /\ history = PriorTurn
    /\ file.exists

LastTwo(h, a, b) ==
    /\ Len(h.v) >= 2
    /\ h.v[Len(h.v) - 1] = a
    /\ h.v[Len(h.v)] = b

\* C25: the step that ends a chat turn whose call and save both succeeded
\* leaves the file holding the transcript in memory, and the transcript's last
\* two entries are the turn's user message and then its response.
C25_TurnPersisted ==
    [][(repl.pc = "chat" /\ repl'.turn = "done") =>
          /\ FileHolds(file', history', bookmarks', sessions')
          /\ LastTwo(history', Message("user", repl.input),
                     Message("assistant", calls[repl.call].out.v))]_vars

\* Two turns have succeeded, the second started by a line that is not in
\* lower case, and the file holds both.
C25_Witness ==
    /\ repl.pc = "prompt"
    /\ repl.turn = "done"
    /\ repl.initial = EmptyList
    /\ Len(history.v) = 4
    /\ repl.input = "/THEME ocean"
    /\ FileHolds(file, history, bookmarks, sessions)

Paired(h) ==
    /\ Len(h.v) % 2 = 0
    /\ \A i \in 1..Len(h.v) :
        /\ IsDict(h.v[i])
        /\ "role" \in DOMAIN h.v[i].v
        /\ h.v[i].v["role"] = Str(IF i % 2 = 1 THEN "user" ELSE "assistant")

\* C26: in a run that began with an empty transcript, at every prompt the
\* transcript has even length and its roles alternate user, assistant.
C26_Pairs ==
    (repl.initial = EmptyList /\ repl.pc = "prompt") => Paired(history)

\* A turn has succeeded, the next one has failed, a command has followed, and
\* the prompt is shown again.
C26_Witness ==
    /\ repl.initial = EmptyList
    /\ repl.pc = "prompt"
    /\ repl.turn = "failed"
    /\ repl.asked.text = "/history"
    /\ Len(history.v) = 2

\* C27: the step that ends a chat turn whose save failed returns to the
\* prompt with the error reported; the transcript ends with the turn's two
\* messages and the file does not hold that transcript.
C27_SaveFailureSurvived ==
    [][(repl.pc = "chat" /\ repl'.turn = "save_failed") =>
          /\ repl'.pc = "prompt"
          /\ last'.op = "save_history" /\ last'.ex = "OSError"
          /\ LastTwo(history', Message("user", repl.input),
                     Message("assistant", calls[repl.call].out.v))
          /\ ~FileHolds(file', history', bookmarks', sessions')]_vars

\* A save has failed after the first turn of a run, and the prompt is shown
\* with the two messages in memory and no file.
C27_Witness ==
    /\ repl.turn = "save_failed"
    /\ repl.pc = "prompt"
    /\ Len(history.v) = 2
    /\ ~file.exists

\* The lines the help screen lists, and blank input; /exit in any case.
CommandLines ==
    {l \in Lines :
        \/ l = <<>>
        \/ l[1] \in {"/help", "/theme", "/history", "/bookmark", "/preview",
                     "/analytics"}
        \/ LineLower(l) = <<"/exit">>}
CommandTexts == {Text(l) : l \in CommandLines}
ExitTexts == {Text(l) : l \in {k \in Lines : LineLower(k) = <<"/exit">>}}

\* C28: the step that reads blank input or one of the commands starts no chat
\* call, spawns no tool server and leaves the transcript as it is; the step
\* that reads /exit in any letter case, end of input or an interrupt ends the
\* loop.
C28_CommandsFrame ==
    [][repl.pc = "prompt" /\ repl' # repl =>
          /\ (repl'.asked.kind = "line" /\ repl'.asked.text \in CommandTexts) =>
                /\ UNCHANGED <<calls, servers, history>>
                /\ repl'.pc \in {"prompt", "exited"}
          /\ (repl'.asked.kind = "line" /\ repl'.asked.text \in ExitTexts) =>
                repl'.pc = "exited"
          /\ repl'.asked.kind \in {"eof", "interrupt"} =>
                /\ UNCHANGED <<calls, servers, history>>
                /\ repl'.pc = "exited"]_vars

\* After a successful turn, /EXIT has ended the loop.
C28_Witness ==
    /\ repl.pc = "exited"
    /\ repl.asked.text = "/EXIT"
    /\ repl.turn = "done"
    /\ Len(calls) = 1 /\ Len(servers) = 1

PickTexts(word) == {Text(l) : l \in {k \in Lines : k # <<>> /\ k[1] = word}}

====
